---- MODULE Spec2Model ----
(***************************************************************************)
(* Model of deployment/env-validator.py: class EnvValidator, its five      *)
(* extractors and validate().  Text is modelled at character level         *)
(* (tuples of one-character strings) wherever the code inspects            *)
(* characters: variable names, template text, key=value lines.             *)
(***************************************************************************)
EXTENDS Naturals, Sequences, FiniteSets, TLC

(***************************************************************************)
(* Bounds of the model.                                                    *)
(***************************************************************************)
MaxLabels == 2      \* LABEL matches in a Dockerfile (validate() runs)
MaxRefs == 2        \* text chunks in the mxcp config file
MaxLines == 2       \* lines in the config.env file (validate() runs)
MaxRuns == 2        \* validate() calls on one EnvValidator instance
MaxCarry == 1       \* findings an instance may hold when validate() is called again
MaxLabelsFn == 3    \* LABEL matches when extract_docker_labels is checked alone
MaxLinesFn == 4     \* lines when extract_config_env_vars is checked alone

(***************************************************************************)
(* Names and texts used as inputs.                                         *)
(***************************************************************************)
DB_HOST == <<"D", "B", "_", "H", "O", "S", "T">>
API_KEY == <<"A", "P", "I", "_", "K", "E", "Y">>
DB_TOKEN == <<"D", "B", "_", "T", "O", "K", "E", "N">>
AWS_REGION == <<"A", "W", "S", "_", "R", "E", "G", "I", "O", "N">>
FOO == <<"F", "O", "O">>
BAR == <<"B", "A", "R">>
MXCP_DATA_ACCESS_KEY_ID ==
    <<"M", "X", "C", "P", "_", "D", "A", "T", "A", "_", "A", "C", "C", "E",
      "S", "S", "_", "K", "E", "Y", "_", "I", "D">>
MXCP_DATA_SECRET_ACCESS_KEY ==
    <<"M", "X", "C", "P", "_", "D", "A", "T", "A", "_", "S", "E", "C", "R",
      "E", "T", "_", "A", "C", "C", "E", "S", "S", "_", "K", "E", "Y">>

Upper ==
    {"A", "B", "C", "D", "E", "F", "G", "H", "I", "J", "K", "L", "M", "N",
     "O", "P", "Q", "R", "S", "T", "U", "V", "W", "X", "Y", "Z"}
Lower ==
    {"a", "b", "c", "d", "e", "f", "g", "h", "i", "j", "k", "l", "m", "n",
     "o", "p", "q", "r", "s", "t", "u", "v", "w", "x", "y", "z"}
Digits == {"0", "1", "2", "3", "4", "5", "6", "7", "8", "9"}
WordChars == Upper \cup Lower \cup Digits \cup {"_"}      \* regex \w
Whitespace == {" ", "\t", "\n", "\r"}                     \* str.strip()

(***************************************************************************)
(* Python string and dict operations, computed on character tuples.        *)
(***************************************************************************)
BSeq(S, n) == UNION {[1..k -> S] : k \in 0..n}

Range(s) == {s[i] : i \in 1..Len(s)}

RECURSIVE Concat(_)
Concat(ss) == IF ss = <<>> THEN <<>> ELSE Head(ss) \o Concat(Tail(ss))

IsPrefix(s, t) == Len(s) <= Len(t) /\ SubSeq(t, 1, Len(s)) = s

StartsWith(s, p) == IsPrefix(p, s)

EndsWith(s, p) == Len(p) <= Len(s) /\ SubSeq(s, Len(s) - Len(p) + 1, Len(s)) = p

\* sub in s
Contains(s, sub) ==
    \E i \in 0..Len(s) : i + Len(sub) <= Len(s) /\ SubSeq(s, i + 1, i + Len(sub)) = sub

\* str.isupper(): at least one cased character and no lower-case one
IsUpper(s) == (\E i \in 1..Len(s) : s[i] \in Upper) /\ (\A i \in 1..Len(s) : s[i] \notin Lower)

RECURSIVE LStrip(_, _)
LStrip(s, cs) == IF s # <<>> /\ Head(s) \in cs THEN LStrip(Tail(s), cs) ELSE s

RECURSIVE RStrip(_, _)
RStrip(s, cs) ==
    IF s # <<>> /\ s[Len(s)] \in cs THEN RStrip(SubSeq(s, 1, Len(s) - 1), cs) ELSE s

\* str.strip(chars): every leading and trailing character of the set is removed
Strip(s, cs) == RStrip(LStrip(s, cs), cs)

\* index of the first occurrence of character c in s, 0 when absent
RECURSIVE IndexFrom(_, _, _)
IndexFrom(s, c, i) ==
    IF i > Len(s) THEN 0 ELSE IF s[i] = c THEN i ELSE IndexFrom(s, c, i + 1)

\* A dict is the sequence of its items [k, v] in insertion order, keys unique.
DictKeys(d) == [i \in 1..Len(d) |-> d[i].k]

DictHas(d, key) == \E i \in 1..Len(d) : d[i].k = key

DictGet(d, key) == d[CHOOSE i \in 1..Len(d) : d[i].k = key].v

\* d[key] = val: an existing key keeps its position and takes the new value
DictSet(d, key, val) ==
    IF DictHas(d, key)
    THEN [i \in 1..Len(d) |-> IF d[i].k = key THEN [k |-> key, v |-> val] ELSE d[i]]
    ELSE Append(d, [k |-> key, v |-> val])

\* the orders in which list(set(...)) may hold the elements of S
Orders(S) ==
    {s \in [1..Cardinality(S) -> S] : \A i, j \in 1..Cardinality(S) : s[i] = s[j] => i = j}

(***************************************************************************)
(* Findings: the message template and the variable it is formatted with.   *)
(***************************************************************************)
ErrInvalidJson(v) == [text |-> "Invalid JSON in Docker label for {var_name}", var |-> v]

ErrRuntimeNotPassed(v) ==
    [text |-> "Runtime var {var} in Docker labels but not passed by deploy-app-runner.sh",
     var |-> v]

WarnNotDocumented(v) ==
    [text |-> "Variable {var} passed to App Runner but not documented in Docker labels",
     var |-> v]

ErrNotRuntime(v) ==
    [text |-> "Variable ${var} used in mxcp-user-config.yml but not documented as runtime requirement",
     var |-> v]

ErrNotPassed(v) ==
    [text |-> "Variable ${var} used in mxcp-user-config.yml but not passed by deploy-app-runner.sh",
     var |-> v]

WarnCicd(v) ==
    [text |-> "CI/CD variable {var} used in workflow but not documented in Docker labels",
     var |-> v]

ErrSecret(v) ==
    [text |-> "Potential secret {var} found in config.env.template (should be in GitHub Secrets)",
     var |-> v]

(***************************************************************************)
(* json.loads on a label payload.  A payload is the token sequence of the  *)
(* text the regex captured between the quotes: it begins with "{" and ends *)
(* with "}".  The result of a well-formed object is a dict of its members. *)
(***************************************************************************)
JsonStrings == {"\"required\"", "\"description\"", "\"x\""}
JsonValues == JsonStrings \cup {"true", "false", "1"}
JsonFail == [ok |-> FALSE, value |-> <<>>]

RECURSIVE JsonMembers(_, _, _)
JsonMembers(p, i, acc) ==
    IF i + 3 > Len(p) THEN JsonFail
    ELSE IF p[i] \notin JsonStrings \/ p[i + 1] # ":" \/ p[i + 2] \notin JsonValues
         THEN JsonFail
    ELSE IF i + 3 = Len(p) THEN [ok |-> TRUE, value |-> DictSet(acc, p[i], p[i + 2])]
    ELSE IF p[i + 3] = "," THEN JsonMembers(p, i + 4, DictSet(acc, p[i], p[i + 2]))
    ELSE JsonFail

json_loads(p) ==
    IF Len(p) < 2 \/ p[1] # "{" \/ p[Len(p)] # "}" THEN JsonFail
    ELSE IF Len(p) = 2 THEN [ok |-> TRUE, value |-> <<>>]
    ELSE JsonMembers(p, 2, <<>>)

JsonEmpty == <<"{", "}">>
JsonRequired == <<"{", "\"required\"", ":", "true", "}">>
JsonTwo ==
    <<"{", "\"required\"", ":", "false", ",", "\"description\"", ":", "\"x\"", "}">>
JsonNoValue == <<"{", "\"required\"", ":", "}">>
JsonBareKey == <<"{", "required", ":", "true", "}">>
JsonTrailingComma == <<"{", "\"required\"", ":", "true", ",", "}">>

(***************************************************************************)
(* extract_docker_labels: the loop over the regex matches.                 *)
(***************************************************************************)
NoLabels == [runtime |-> <<>>, cicd |-> <<>>]

\* the mutant: a label whose payload does not parse is recorded without an Error
LabelStepSilent(st, m) ==
    IF json_loads(m.json).ok
    THEN [labels |-> [st.labels EXCEPT ![m.phase] = DictSet(@, m.var, json_loads(m.json).value)],
          errors |-> st.errors]
    ELSE st

\* one iteration of the loop of lines 29-33
LabelStep(st, m) ==
    IF json_loads(m.json).ok
    THEN [labels |-> [st.labels EXCEPT ![m.phase] = DictSet(@, m.var, json_loads(m.json).value)],
          errors |-> st.errors]
    ELSE [labels |-> st.labels, errors |-> Append(st.errors, ErrInvalidJson(m.var))]

RECURSIVE LabelLoop(_, _)
LabelLoop(st, matches) ==
    IF matches = <<>> THEN st ELSE LabelLoop(LabelStep(st, Head(matches)), Tail(matches))

\* matches: what re.findall returns for the Dockerfile's text; errs: the Errors
\* the call has appended so far.  The result holds the labels and those Errors.
extract_docker_labels(matches, errs) == LabelLoop([labels |-> NoLabels, errors |-> errs], matches)

(***************************************************************************)
(* extract_deploy_script_vars.  A script is a sequence of lines; a line is *)
(* either a loop header `for var in NAMES; do` or anything else.           *)
(***************************************************************************)
Dynamic == [dynamic |-> TRUE, names |-> <<>>]
Static(names) == [dynamic |-> FALSE, names |-> names]

HasLoop(script) == \E i \in 1..Len(script) : script[i].kind = "for"

FirstLoop(script) == script[CHOOSE i \in 1..Len(script) :
                               script[i].kind = "for" /\ \A j \in 1..(i - 1) : script[j].kind # "for"]

\* the extractor of the variant that parses the loop header (not in this file)
extract_deploy_script_vars_legacy(script) ==
    IF HasLoop(script) THEN Static(FirstLoop(script).names) ELSE Dynamic

\* the mutant: the loop header is parsed, as the legacy extractor did
extract_deploy_script_vars_parsing(script) == extract_deploy_script_vars_legacy(script)

\* the extractor of this file: the script is not opened, the result is None
extract_deploy_script_vars(script) == Dynamic

(***************************************************************************)
(* extract_mxcp_config_vars: re.findall(r'\$\{(\w+)\}') and the filter.    *)
(***************************************************************************)
\* last index of the longest run of \w characters that starts at j (j-1: none)
RECURSIVE WordEnd(_, _)
WordEnd(s, j) == IF j <= Len(s) /\ s[j] \in WordChars THEN WordEnd(s, j + 1) ELSE j - 1

RECURSIVE FindRefs(_, _)
FindRefs(s, i) ==
    IF i > Len(s) THEN <<>>
    ELSE IF s[i] = "$" /\ i + 1 <= Len(s) /\ s[i + 1] = "{"
                /\ WordEnd(s, i + 2) >= i + 2
                /\ WordEnd(s, i + 2) + 1 <= Len(s) /\ s[WordEnd(s, i + 2) + 1] = "}"
         THEN <<SubSeq(s, i + 2, WordEnd(s, i + 2))>> \o FindRefs(s, WordEnd(s, i + 2) + 2)
         ELSE FindRefs(s, i + 1)

\* the filter of line 60
KeepRef(var) ==
    ~StartsWith(var, <<"{", "{">>) /\ ~EndsWith(var, <<"}", "}">>) /\ IsUpper(var)

\* set(...) of line 60; list(...) puts it in some order
extract_mxcp_config_vars(text) == {v \in Range(FindRefs(text, 1)) : KeepRef(v)}

(***************************************************************************)
(* extract_config_env_vars.                                                *)
(***************************************************************************)
\* the mutant: one leading and one trailing quote at most
StripOneLayer(value) ==
    IF Len(value) >= 2 /\ value[1] = "\"" /\ value[Len(value)] = "\""
    THEN SubSeq(value, 2, Len(value) - 1)
    ELSE value

\* value.strip('"')
StripQuotes(value) == Strip(value, {"\""})

\* the body of the loop of lines 66-70
ConfigLine(vars, raw) ==
    LET line == Strip(raw, Whitespace)
        i == IndexFrom(line, "=", 1)
    IN  IF line # <<>> /\ ~StartsWith(line, <<"#">>) /\ "=" \in Range(line)
        THEN DictSet(vars, SubSeq(line, 1, i - 1), StripQuotes(SubSeq(line, i + 1, Len(line))))
        ELSE vars

RECURSIVE ConfigLoop(_, _)
ConfigLoop(vars, lines) ==
    IF lines = <<>> THEN vars ELSE ConfigLoop(ConfigLine(vars, Head(lines)), Tail(lines))

extract_config_env_vars(lines) == ConfigLoop(<<>>, lines)

(***************************************************************************)
(* The four checks of validate(), as the findings each appends.            *)
(***************************************************************************)
\* the sub-sequence of s whose elements are in S, order kept
RECURSIVE Filter(_, _)
Filter(s, S) ==
    IF s = <<>> THEN <<>>
    ELSE (IF Head(s) \in S THEN <<Head(s)>> ELSE <<>>) \o Filter(Tail(s), S)

\* the mutant: no name is exempt
NoExemptVars == {}

\* the list of line 102
ExemptVars == {MXCP_DATA_ACCESS_KEY_ID, MXCP_DATA_SECRET_ACCESS_KEY}

\* lines 98-100: errors of check 1 in static-list mode
Rule1Errors(runtime, names) ==
    LET missing == Filter(DictKeys(runtime), {v \in Range(DictKeys(runtime)) : v \notin Range(names)})
    IN  [i \in 1..Len(missing) |-> ErrRuntimeNotPassed(missing[i])]

\* lines 101-103: warnings of check 1 in static-list mode
Rule1Warnings(runtime, names) ==
    LET extra == Filter(names, {v \in Range(names) : ~DictHas(runtime, v) /\ v \notin ExemptVars})
    IN  [i \in 1..Len(extra) |-> WarnNotDocumented(extra[i])]

\* the mutant: the deploy-script test of line 111 is made in dynamic mode too
Rule2VarAlways(var, runtime, dv) ==
    (IF ~DictHas(runtime, var) THEN <<ErrNotRuntime(var)>> ELSE <<>>)
    \o (IF var \notin Range(dv.names) THEN <<ErrNotPassed(var)>> ELSE <<>>)

\* lines 108-112: the errors check 2 appends for one variable
Rule2Var(var, runtime, dv) ==
    (IF ~DictHas(runtime, var) THEN <<ErrNotRuntime(var)>> ELSE <<>>)
    \o (IF ~dv.dynamic /\ var \notin Range(dv.names) THEN <<ErrNotPassed(var)>> ELSE <<>>)

\* line 107: the loop of check 2
RECURSIVE Rule2Errors(_, _, _)
Rule2Errors(vars, runtime, dv) ==
    IF vars = <<>> THEN <<>>
    ELSE Rule2Var(Head(vars), runtime, dv) \o Rule2Errors(Tail(vars), runtime, dv)

\* line 118
IsCicdVar(var) ==
    \/ StartsWith(var, <<"A", "W", "S", "_">>)
    \/ EndsWith(var, <<"_", "A", "C", "C", "E", "S", "S", "_", "K", "E", "Y", "_", "I", "D">>)
    \/ EndsWith(var, <<"_", "S", "E", "C", "R", "E", "T", "_", "A", "C", "C", "E", "S", "S",
                       "_", "K", "E", "Y">>)

\* lines 117-120: warnings of check 3
Rule3Warnings(keys, cicd) ==
    LET undoc == Filter(keys, {v \in Range(keys) : IsCicdVar(v) /\ ~DictHas(cicd, v)})
    IN  [i \in 1..Len(undoc) |-> WarnCicd(undoc[i])]

\* the mutant: TOKEN is not looked for
LooksSecretNoToken(var) ==
    Contains(var, <<"K", "E", "Y">>) \/ Contains(var, <<"S", "E", "C", "R", "E", "T">>)

\* line 125
LooksSecret(var) ==
    \/ Contains(var, <<"K", "E", "Y">>)
    \/ Contains(var, <<"S", "E", "C", "R", "E", "T">>)
    \/ Contains(var, <<"T", "O", "K", "E", "N">>)

\* lines 124-126: errors of check 4
Rule4Errors(config) ==
    LET secret == Filter(DictKeys(config), {v \in Range(DictKeys(config)) : LooksSecret(v)})
    IN  [i \in 1..Len(secret) |-> ErrSecret(secret[i])]

\* the mutant: any finding, a warning too, makes the code 1
ReturnCodeStrict(errs, warns) == IF errs = <<>> /\ warns = <<>> THEN 0 ELSE 1

\* lines 132-147: the value validate() returns
ReturnCode(errs, warns) ==
    IF errs = <<>> /\ warns = <<>> THEN 0
    ELSE IF errs # <<>> THEN 1
    ELSE 0

(***************************************************************************)
(* The files validate() is given.                                          *)
(***************************************************************************)
MissingFile(kind) == [kind |-> kind, exists |-> FALSE, body |-> <<>>]
File(kind, body) == [kind |-> kind, exists |-> TRUE, body |-> body]
NoFile == MissingFile("none")

Label(phase, var, json) == [phase |-> phase, var |-> var, json |-> json]

LabelPool ==
    {Label("runtime", DB_HOST, JsonRequired), Label("runtime", DB_HOST, JsonNoValue),
     Label("cicd", AWS_REGION, JsonEmpty)}

LabelPoolFn ==
    {Label(ph, DB_HOST, js) : ph \in {"runtime", "cicd"},
                              js \in {JsonEmpty, JsonRequired, JsonTwo, JsonNoValue, JsonBareKey,
                                      JsonTrailingComma}}
    \cup {Label("runtime", API_KEY, JsonRequired), Label("runtime", API_KEY, JsonNoValue)}

DockerFiles(pool, n) == {MissingFile("docker")} \cup {File("docker", m) : m \in BSeq(pool, n)}

OtherLine == [kind |-> "other", names |-> <<>>]
ForLine(names) == [kind |-> "for", names |-> names]

ScriptFiles ==
    {MissingFile("script"),
     File("script", <<OtherLine>>),
     File("script", <<OtherLine, ForLine(<<DB_HOST, API_KEY>>)>>),
     File("script", <<ForLine(<<API_KEY, MXCP_DATA_ACCESS_KEY_ID>>), ForLine(<<DB_HOST>>)>>)}

Yaml(kind, hasenv, envnull, env) ==
    [yaml |-> kind, hasenv |-> hasenv, envnull |-> envnull, env |-> env]

WorkflowFiles ==
    {MissingFile("workflow"),
     File("workflow", Yaml("error", FALSE, FALSE, <<>>)),
     File("workflow", Yaml("scalar", FALSE, FALSE, <<>>)),
     File("workflow", Yaml("mapping", FALSE, FALSE, <<>>)),
     File("workflow", Yaml("mapping", TRUE, TRUE, <<>>)),
     File("workflow", Yaml("mapping", TRUE, FALSE, <<AWS_REGION>>)),
     File("workflow", Yaml("mapping", TRUE, FALSE, <<DB_HOST, MXCP_DATA_ACCESS_KEY_ID>>))}

ChunkPool ==
    {<<" ", "$", "{", "D", "B", "_", "H", "O", "S", "T", "}">>,
     <<" ", "$", "{", "A", "P", "I", "_", "K", "E", "Y", "}">>,
     <<" ", "$", "{", "d", "b", "_", "h", "o", "s", "t", "}", " ", "$", "{", "{", "n", "e",
       "s", "t", "e", "d", "}", "}">>}

MxcpFiles == {MissingFile("mxcp")} \cup {File("mxcp", Concat(c)) : c \in BSeq(ChunkPool, MaxRefs)}

LinePool ==
    {<<"D", "B", "_", "H", "O", "S", "T", "=", "x">>,
     <<"D", "B", "_", "T", "O", "K", "E", "N", "=", "x">>,
     <<"d", "b", "_", "t", "o", "k", "e", "n", "=", "x">>}

LinePoolFn ==
    {<<"#", " ", "c", "o", "m", "m", "e", "n", "t">>,
     <<"F", "O", "O", "=", "\"", "h", "e", "l", "l", "o", "\"">>,
     <<"B", "A", "R", "=", "w", "o", "r", "l", "d">>,
     <<"F", "O", "O", "=", "o", "v", "e", "r", "r", "i", "d", "e">>,
     <<"F", "O", "O", "=", "\"", "\"", "h", "e", "l", "l", "o", "\"", "\"">>,
     <<"B", "A", "R", "=", "\"", "x">>,
     <<" ", " ", "B", "A", "R", " ", "=", " ", "a", "=", "b", " ", "\n">>,
     <<"N", "O", "E", "Q">>,
     <<" ", "\n">>}

ConfigFiles(pool, n) == {MissingFile("config")} \cup {File("config", l) : l \in BSeq(pool, n)}

(***************************************************************************)
(* State.                                                                  *)
(***************************************************************************)
VARIABLES
    variant,        \* "current": the extractor of this file; "legacy": the loop-parsing one
    pc,             \* where validate() stands
    content,        \* the file at the path last handed to an extractor
    docker_labels,  \* validate()'s locals
    deploy_vars,
    workflow_env,
    mxcp_vars,
    config_env,
    errors,         \* self.errors
    warnings,       \* self.warnings
    report,         \* the results report this call printed
    rc,             \* the value this call returned: {} while it has returned none
    runs,           \* validate() calls made on the instance
    base            \* the lengths of self.errors and self.warnings when this call began

locals == <<docker_labels, deploy_vars, workflow_env, mxcp_vars, config_env>>
findings == <<errors, warnings>>
vars == <<variant, pc, content, docker_labels, deploy_vars, workflow_env, mxcp_vars,
          config_env, errors, warnings, report, rc, runs, base>>

NoReport == [printed |-> FALSE, allpassed |-> FALSE, warnings |-> <<>>, errors |-> <<>>]
NoEnv == [isnull |-> FALSE, keys |-> <<>>]

\* EnvValidator(): lines 14-16
Init ==
    /\ variant \in {"current", "legacy"}
    /\ pc = "idle"
    /\ content = NoFile
    /\ docker_labels = NoLabels
    /\ deploy_vars = Dynamic
    /\ workflow_env = NoEnv
    /\ mxcp_vars = <<>>
    /\ config_env = <<>>
    /\ errors = <<>>
    /\ warnings = <<>>
    /\ report = NoReport
    /\ rc = {}
    /\ runs = 0
    /\ base = [errors |-> 0, warnings |-> 0]

\* the mutant: the exception is caught and recorded as an Error
RaiseAsError(file) ==
    /\ pc' = "raised"
    /\ content' = file
    /\ errors' = Append(errors, [text |-> "Cannot read {path}", var |-> <<>>])
    /\ UNCHANGED <<variant, locals, warnings, report, rc, runs, base>>

\* an exception leaves the extractor and validate(): nothing else changes
Raise(file) ==
    /\ pc' = "raised"
    /\ content' = file
    /\ UNCHANGED <<variant, locals, findings, report, rc, runs, base>>

\* the entry of validate(), line 73: self.errors and self.warnings are not touched
Call ==
    /\ pc' = "docker"
    /\ content' = NoFile
    /\ docker_labels' = NoLabels
    /\ deploy_vars' = Dynamic
    /\ workflow_env' = NoEnv
    /\ mxcp_vars' = <<>>
    /\ config_env' = <<>>
    /\ report' = NoReport
    /\ rc' = {}
    /\ runs' = runs + 1
    /\ base' = [errors |-> Len(errors), warnings |-> Len(warnings)]
    /\ UNCHANGED <<variant, findings>>

\* lines 150-151: validate() is called on the new instance
Validate ==
    /\ pc = "idle"
    /\ Call

\* validate() is called again on an instance that has run it
Revalidate ==
    /\ pc \in {"returned", "raised"}
    /\ runs < MaxRuns
    /\ Len(errors) + Len(warnings) <= MaxCarry
    /\ Call

\* the mutant: a finding is put in front of the list
AppendAllInFront(list, new) == new \o list

\* list.append, for each finding of new in turn
AppendAll(list, new) == list \o new

\* line 78
ExtractDockerLabels(files) ==
    /\ pc = "docker"
    /\ \E f \in files :
        IF ~f.exists THEN Raise(f)
        ELSE /\ docker_labels' = extract_docker_labels(f.body, <<>>).labels
             /\ errors' = AppendAll(errors, extract_docker_labels(f.body, <<>>).errors)
             /\ content' = f
             /\ pc' = "deploy"
             /\ UNCHANGED <<variant, deploy_vars, workflow_env, mxcp_vars, config_env,
                            warnings, report, rc, runs, base>>

\* line 79
ExtractDeployVars ==
    /\ pc = "deploy"
    /\ \E f \in ScriptFiles :
        IF variant = "legacy" /\ ~f.exists THEN Raise(f)
        ELSE /\ deploy_vars' = IF variant = "legacy"
                               THEN extract_deploy_script_vars_legacy(f.body)
                               ELSE extract_deploy_script_vars(f.body)
             /\ content' = f
             /\ pc' = "workflow"
             /\ UNCHANGED <<variant, docker_labels, workflow_env, mxcp_vars, config_env,
                            findings, report, rc, runs, base>>

\* line 80 and lines 44-49
ExtractWorkflowEnv ==
    /\ pc = "workflow"
    /\ \E f \in WorkflowFiles :
        IF ~f.exists \/ f.body.yaml # "mapping" THEN Raise(f)
        ELSE /\ workflow_env' = IF f.body.hasenv
                                THEN [isnull |-> f.body.envnull, keys |-> f.body.env]
                                ELSE NoEnv
             /\ content' = f
             /\ pc' = "mxcp"
             /\ UNCHANGED <<variant, docker_labels, deploy_vars, mxcp_vars, config_env,
                            findings, report, rc, runs, base>>

\* lines 83-89: f is the processed file, or the template when there is none
ExtractMxcpConfigVars ==
    /\ pc = "mxcp"
    /\ \E f \in MxcpFiles :
        IF ~f.exists THEN Raise(f)
        ELSE /\ mxcp_vars' \in Orders(extract_mxcp_config_vars(f.body))
             /\ content' = f
             /\ pc' = "config"
             /\ UNCHANGED <<variant, docker_labels, deploy_vars, workflow_env, config_env,
                            findings, report, rc, runs, base>>

\* lines 84 and 90
ExtractConfigEnv(files) ==
    /\ pc = "config"
    /\ \E f \in files :
        IF ~f.exists THEN Raise(f)
        ELSE /\ config_env' = extract_config_env_vars(f.body)
             /\ content' = f
             /\ pc' = "check1"
             /\ UNCHANGED <<variant, docker_labels, deploy_vars, workflow_env, mxcp_vars,
                            findings, report, rc, runs, base>>

\* lines 92-103
Check1 ==
    /\ pc = "check1"
    /\ errors' = IF deploy_vars.dynamic THEN errors
                 ELSE AppendAll(errors, Rule1Errors(docker_labels.runtime, deploy_vars.names))
    /\ warnings' = IF deploy_vars.dynamic THEN warnings
                   ELSE AppendAll(warnings,
                                  Rule1Warnings(docker_labels.runtime, deploy_vars.names))
    /\ pc' = "check2"
    /\ UNCHANGED <<variant, content, locals, report, rc, runs, base>>

\* lines 105-112
Check2 ==
    /\ pc = "check2"
    /\ errors' = AppendAll(errors, Rule2Errors(mxcp_vars, docker_labels.runtime, deploy_vars))
    /\ pc' = "check3"
    /\ UNCHANGED <<variant, content, locals, warnings, report, rc, runs, base>>

\* lines 114-120: iterating over a null env raises
Check3 ==
    /\ pc = "check3"
    /\ IF workflow_env.isnull THEN Raise(content)
       ELSE /\ warnings' = AppendAll(warnings,
                                      Rule3Warnings(workflow_env.keys, docker_labels.cicd))
            /\ pc' = "check4"
            /\ UNCHANGED <<variant, content, locals, errors, report, rc, runs, base>>

\* lines 122-126
Check4 ==
    /\ pc = "check4"
    /\ errors' = AppendAll(errors, Rule4Errors(config_env))
    /\ pc' = "report"
    /\ UNCHANGED <<variant, content, locals, warnings, report, rc, runs, base>>

\* lines 128-147
Report ==
    /\ pc = "report"
    /\ report' = [printed |-> TRUE, allpassed |-> errors = <<>> /\ warnings = <<>>,
                  warnings |-> warnings, errors |-> errors]
    /\ rc' = {ReturnCode(errors, warnings)}
    /\ pc' = "returned"
    /\ UNCHANGED <<variant, content, locals, findings, runs, base>>

Next ==
    \/ Validate
    \/ ExtractDockerLabels(DockerFiles(LabelPool, MaxLabels))
    \/ ExtractDeployVars
    \/ ExtractWorkflowEnv
    \/ ExtractMxcpConfigVars
    \/ ExtractConfigEnv(ConfigFiles(LinePool, MaxLines))
    \/ Check1
    \/ Check2
    \/ Check3
    \/ Check4
    \/ Report

Spec == Init /\ [][Next]_vars

\* one instance, validate() called on it more than once
NextReuse == Next \/ Revalidate

SpecReuse == Init /\ [][NextReuse]_vars

\* extract_docker_labels alone, on a wider set of Dockerfiles
NextLabels ==
    \/ Validate
    \/ ExtractDockerLabels(DockerFiles(LabelPoolFn, MaxLabelsFn))

SpecLabels == Init /\ [][NextLabels]_vars

\* extract_config_env_vars alone, on a wider set of files: validate() stands at line 90
InitConfig ==
    /\ variant \in {"current", "legacy"}
    /\ pc = "config"
    /\ content = NoFile
    /\ docker_labels = NoLabels
    /\ deploy_vars = Dynamic
    /\ workflow_env = NoEnv
    /\ mxcp_vars = <<>>
    /\ config_env = <<>>
    /\ errors = <<>>
    /\ warnings = <<>>
    /\ report = NoReport
    /\ rc = {}
    /\ runs = 1
    /\ base = [errors |-> 0, warnings |-> 0]

NextConfig == ExtractConfigEnv(ConfigFiles(LinePoolFn, MaxLinesFn))

SpecConfig == InitConfig /\ [][NextConfig]_vars

(***************************************************************************)
(* Properties.                                                             *)
(***************************************************************************)
\* the findings this call of validate() has appended
NewErrors == SubSeq(errors, base.errors + 1, Len(errors))
NewWarnings == SubSeq(warnings, base.warnings + 1, Len(warnings))

\* what a step appended to a list that grew from old to new
Added(old, new) == SubSeq(new, Len(old) + 1, Len(new))

Count(s, x) == Cardinality({i \in 1..Len(s) : s[i] = x})

Texts(s) == {s[i].text : i \in 1..Len(s)}

\* C1: when validate() has returned, the code is 0 if self.errors is empty and 1
\* if it is not, whatever the number of warnings.
C1_ReturnCode ==
    pc = "returned" =>
        /\ errors = <<>> => rc = {0}
        /\ errors # <<>> => rc = {1}

\* a run that ends with warnings and no error, and returns 0
C1_Witness ==
    pc = "returned" /\ errors = <<>> /\ Len(warnings) > 0 /\ rc = {0} /\ report.printed

\* a key=value line as extract_config_env_vars is said to read it: blank lines and
\* comments are skipped, the key is what stands before the first "="
Trimmed(line) == Strip(line, Whitespace)
IsAssignment(line) ==
    Trimmed(line) # <<>> /\ Trimmed(line)[1] # "#" /\ "=" \in Range(Trimmed(line))
KeyOf(line) == SubSeq(Trimmed(line), 1, IndexFrom(Trimmed(line), "=", 1) - 1)
RawValueOf(line) ==
    SubSeq(Trimmed(line), IndexFrom(Trimmed(line), "=", 1) + 1, Len(Trimmed(line)))
KeysOfLines(lines) == {KeyOf(lines[i]) : i \in {j \in 1..Len(lines) : IsAssignment(lines[j])}}

\* the names NAME for which ${NAME} occurs in a text
RefsIn(text) ==
    {SubSeq(text, ij[1] + 2, ij[2] - 1) :
        ij \in {x \in (1..Len(text)) \X (1..Len(text)) :
                  /\ x[1] + 2 < x[2]
                  /\ text[x[1]] = "$" /\ text[x[1] + 1] = "{" /\ text[x[2]] = "}"
                  /\ \A k \in (x[1] + 2)..(x[2] - 1) : text[k] \in WordChars}}

SecretWords == {<<"K", "E", "Y">>, <<"S", "E", "C", "R", "E", "T">>, <<"T", "O", "K", "E", "N">>}
HasSecretWord(key) == \E w \in SecretWords : Contains(key, w)
\* what C4 asks of every step
C4_Step ==
    /\ (pc = "mxcp" /\ pc' = "config") =>
        /\ Range(mxcp_vars') = {n \in RefsIn(content'.body) : IsUpper(n)}
        /\ \A i, j \in 1..Len(mxcp_vars') : mxcp_vars'[i] = mxcp_vars'[j] => i = j
    /\ pc \in {"config", "check1"} =>
        /\ mxcp_vars' = mxcp_vars
        /\ docker_labels' = docker_labels
        /\ deploy_vars' = deploy_vars
    /\ (pc = "check2" /\ pc' = "check3") =>
        /\ warnings' = warnings
        /\ IsPrefix(errors, errors')
        /\ \A n \in Range(mxcp_vars) :
            /\ Count(Added(errors, errors'), ErrNotRuntime(n))
                 = IF DictHas(docker_labels.runtime, n) THEN 0 ELSE 1
            /\ Count(Added(errors, errors'), ErrNotPassed(n))
                 = IF ~deploy_vars.dynamic /\ n \notin Range(deploy_vars.names) THEN 1 ELSE 0
        /\ Range(Added(errors, errors'))
             \subseteq {ErrNotRuntime(n) : n \in Range(mxcp_vars)}
                       \cup {ErrNotPassed(n) : n \in Range(mxcp_vars)}

C5_Step ==
    /\ (pc = "check4" /\ pc' = "report") =>
        /\ content.kind = "config"
        /\ warnings' = warnings
        /\ IsPrefix(errors, errors')
        /\ \A key \in KeysOfLines(content.body) :
            Count(Added(errors, errors'), ErrSecret(key)) = IF HasSecretWord(key) THEN 1 ELSE 0
        /\ Range(Added(errors, errors')) \subseteq {ErrSecret(key) : key \in KeysOfLines(content.body)}
    /\ (pc = "report" /\ pc' = "returned") =>
        ((\E key \in KeysOfLines(content.body) : HasSecretWord(key)) => rc' = {1})

\* C5: check 4 appends exactly one "Potential secret" Error for every key of the
\* config.env file that contains KEY, SECRET or TOKEN, however many lines set the
\* key, and nothing for any other key; a run with such a key returns 1.
C5_SecretLeak == [][C5_Step]_vars

\* a run whose config.env sets DB_TOKEN on two lines: one Error, code 1
C5_Witness ==
    /\ pc = "returned"
    /\ Len(content.body) = 2
    /\ \A i \in 1..2 : IsAssignment(content.body[i]) /\ KeyOf(content.body[i]) = DB_TOKEN
    /\ Count(NewErrors, ErrSecret(DB_TOKEN)) = 1
    /\ rc = {1}

FromRules12 == {ErrRuntimeNotPassed(<<>>).text, ErrNotRuntime(<<>>).text, ErrNotPassed(<<>>).text}

\* the scenario of the claim: runtime labels {DB_HOST}, static list [DB_HOST, API_KEY],
\* template references {DB_HOST}
C6_Scenario ==
    /\ DictKeys(docker_labels.runtime) = <<DB_HOST>>
    /\ deploy_vars = Static(<<DB_HOST, API_KEY>>)
    /\ mxcp_vars = <<DB_HOST>>
\* what C6 asks of every step
C6_Step ==
    /\ (pc = "check1" /\ pc' = "check2" /\ deploy_vars.dynamic) =>
        errors' = errors /\ warnings' = warnings
    /\ (pc = "check1" /\ pc' = "check2" /\ ~deploy_vars.dynamic) =>
        /\ IsPrefix(errors, errors') /\ IsPrefix(warnings, warnings')
        /\ \A v \in Range(DictKeys(docker_labels.runtime)) :
            Count(Added(errors, errors'), ErrRuntimeNotPassed(v))
              = IF v \in Range(deploy_vars.names) THEN 0 ELSE 1
        /\ Range(Added(errors, errors'))
             \subseteq {ErrRuntimeNotPassed(v) : v \in Range(DictKeys(docker_labels.runtime))}
        /\ \A v \in Range(deploy_vars.names) :
            IF /\ ~DictHas(docker_labels.runtime, v)
               /\ v # MXCP_DATA_ACCESS_KEY_ID
               /\ v # MXCP_DATA_SECRET_ACCESS_KEY
            THEN /\ Count(Added(warnings, warnings'), WarnNotDocumented(v)) >= 1
                 /\ \A i \in 1..Len(Added(errors, errors')) : Added(errors, errors')[i].var # v
            ELSE Count(Added(warnings, warnings'), WarnNotDocumented(v)) = 0
        /\ Range(Added(warnings, warnings'))
             \subseteq {WarnNotDocumented(v) : v \in Range(deploy_vars.names)}
    /\ (pc = "check2" /\ pc' = "check3" /\ C6_Scenario) =>
        /\ Texts(SubSeq(errors', base.errors + 1, Len(errors'))) \cap FromRules12 = {}
        /\ Count(SubSeq(warnings', base.warnings + 1, Len(warnings')),
                 WarnNotDocumented(API_KEY)) = 1

ExtractionPcs == {"docker", "deploy", "workflow", "mxcp", "config"}

\* the extractor called at position p cannot open or parse file f
ReadFails(p, f) ==
    \/ p \in {"docker", "mxcp", "config"} /\ ~f.exists
    \/ p = "deploy" /\ variant = "legacy" /\ ~f.exists
    \/ p = "workflow" /\ (~f.exists \/ f.body.yaml # "mapping")
\* what C7 asks of every step
C7_Step ==
    /\ pc # "raised"
    /\ pc \in ExtractionPcs =>
        (ReadFails(pc, content') <=> pc' = "raised")
    /\ pc' = "raised" =>
        /\ errors' = errors /\ warnings' = warnings
        /\ ~report'.printed /\ rc' = {}
    /\ (ReadFails(pc, content') /\ pc \in ExtractionPcs) =>
        /\ Texts(SubSeq(errors', base.errors + 1, Len(errors'))) \subseteq {ErrInvalidJson(<<>>).text}
        /\ SubSeq(warnings', base.warnings + 1, Len(warnings')) = <<>>
    /\ (pc = "workflow" /\ content'.exists /\ content'.body.yaml = "mapping"
            /\ ~content'.body.hasenv) =>
        workflow_env' = NoEnv /\ pc' = "mxcp" /\ errors' = errors /\ warnings' = warnings

C7_NoEnvCompletes ==
    ~(pc = "returned" /\ workflow_env = NoEnv /\ rc = {0})

PcOrder ==
    <<"idle", "docker", "deploy", "workflow", "mxcp", "config", "check1", "check2", "check3",
      "check4", "report", "returned">>
Position(p) == CHOOSE i \in 1..Len(PcOrder) : PcOrder[i] = p

\* the step at which each message can be appended
ErrorsAt(p) ==
    CASE p = "docker" -> {ErrInvalidJson(<<>>).text}
      [] p = "check1" -> {ErrRuntimeNotPassed(<<>>).text}
      [] p = "check2" -> {ErrNotRuntime(<<>>).text, ErrNotPassed(<<>>).text}
      [] p = "check4" -> {ErrSecret(<<>>).text}
      [] OTHER -> {}
WarningsAt(p) ==
    CASE p = "check1" -> {WarnNotDocumented(<<>>).text}
      [] p = "check3" -> {WarnCicd(<<>>).text}
      [] OTHER -> {}

\* label-JSON Errors 1, rule-1 Errors 2, rule-2 Errors 3, rule-4 Errors 4
Rank(e) ==
    CASE e.text = ErrInvalidJson(<<>>).text -> 1
      [] e.text = ErrRuntimeNotPassed(<<>>).text -> 2
      [] e.text \in {ErrNotRuntime(<<>>).text, ErrNotPassed(<<>>).text} -> 3
      [] e.text = ErrSecret(<<>>).text -> 4
\* what C10 asks of every step
C10_Step ==
    /\ IsPrefix(errors, errors') /\ IsPrefix(warnings, warnings')
    /\ pc' # pc => pc # "raised" /\ (pc' = "raised" \/ Position(pc') = Position(pc) + 1)
    /\ Texts(Added(errors, errors')) \subseteq ErrorsAt(pc)
    /\ Texts(Added(warnings, warnings')) \subseteq WarningsAt(pc)
    /\ report' # report => pc = "report" /\ pc' = "returned" /\ report'.printed
    /\ pc' = "returned" =>
        \A i, j \in 1..Len(errors') : i < j => Rank(errors'[i]) <= Rank(errors'[j])

Malformed(m) == ~json_loads(m.json).ok

\* the variables of the malformed labels, in the order of the matches
RECURSIVE MalformedVars(_)
MalformedVars(matches) ==
    IF matches = <<>> THEN <<>>
    ELSE (IF Malformed(Head(matches)) THEN <<Head(matches).var>> ELSE <<>>)
         \o MalformedVars(Tail(matches))

OneErrorPerMalformedLabel ==
    /\ Len(NewErrors) = Len(MalformedVars(content.body))
    /\ \A i \in 1..Len(NewErrors) : NewErrors[i] = ErrInvalidJson(MalformedVars(content.body)[i])

\* the well-formed labels of a phase and variable, as positions in the matches
WellFormedAt(matches, phase, var) ==
    {i \in 1..Len(matches) :
        matches[i].phase = phase /\ matches[i].var = var /\ ~Malformed(matches[i])}

Max(S) == CHOOSE x \in S : \A y \in S : y <= x

\* C2 as claimed: once extract_docker_labels has returned, every malformed label
\* has appended one Error naming its variable, and its variable is not in the
\* mapping of its phase.
C2_Original ==
    pc = "deploy" =>
        /\ OneErrorPerMalformedLabel
        /\ \A i \in 1..Len(content.body) :
            Malformed(content.body[i]) =>
                ~DictHas(docker_labels[content.body[i].phase], content.body[i].var)

\* C2 as amended: every malformed label has appended one Error naming its
\* variable and extraction has gone on; the mapping of a phase holds a variable
\* if and only if some label of that phase and variable is well-formed, with the
\* payload of the last such label.
C2_Amended ==
    pc = "deploy" =>
        /\ OneErrorPerMalformedLabel
        /\ warnings = <<>>
        /\ \A phase \in {"runtime", "cicd"} :
            /\ \A i \in 1..Len(content.body) :
                DictHas(docker_labels[phase], content.body[i].var)
                  <=> WellFormedAt(content.body, phase, content.body[i].var) # {}
            /\ \A var \in Range(DictKeys(docker_labels[phase])) :
                /\ WellFormedAt(content.body, phase, var) # {}
                /\ DictGet(docker_labels[phase], var)
                     = json_loads(content.body[Max(WellFormedAt(content.body, phase, var))].json).value

\* a malformed label of a phase and variable that a well-formed label also sets
C2_Witness ==
    /\ pc = "deploy"
    /\ \E i, j \in 1..Len(content.body) :
        /\ Malformed(content.body[i]) /\ ~Malformed(content.body[j])
        /\ content.body[i].phase = content.body[j].phase
        /\ content.body[i].var = content.body[j].var
        /\ DictHas(docker_labels[content.body[i].phase], content.body[i].var)
        /\ Count(NewErrors, ErrInvalidJson(content.body[i].var)) = 1

C9_Claim ==
    pc = "returned" =>
        /\ rc = {IF NewErrors = <<>> THEN 0 ELSE 1}
        /\ report.errors = NewErrors
        /\ report.warnings = NewWarnings

\* the line that sets key last
LastLineOf(lines, key) ==
    Max({i \in 1..Len(lines) : IsAssignment(lines[i]) /\ KeyOf(lines[i]) = key})

\* a value without one pair of surrounding double quotes, when it has one
OneLayerOff(value) ==
    IF Len(value) >= 2 /\ Head(value) = "\"" /\ value[Len(value)] = "\""
    THEN SubSeq(value, 2, Len(value) - 1)
    ELSE value

\* a value without any of its leading and trailing double quotes
AllQuotesOff(value) ==
    LET inner == {i \in 1..Len(value) : value[i] # "\""}
    IN  IF inner = {} THEN <<>>
        ELSE SubSeq(value, CHOOSE a \in inner : \A b \in inner : a <= b, Max(inner))

ExampleLines ==
    <<<<"#", " ", "c", "o", "m", "m", "e", "n", "t">>,
      <<"F", "O", "O", "=", "\"", "h", "e", "l", "l", "o", "\"">>,
      <<"B", "A", "R", "=", "w", "o", "r", "l", "d">>,
      <<"F", "O", "O", "=", "o", "v", "e", "r", "r", "i", "d", "e">>>>

ExampleResult ==
    /\ Range(DictKeys(config_env)) = {FOO, BAR}
    /\ DictGet(config_env, FOO) = <<"o", "v", "e", "r", "r", "i", "d", "e">>
    /\ DictGet(config_env, BAR) = <<"w", "o", "r", "l", "d">>

\* what extract_config_env_vars returns but for the quotes of the values: the keys
\* are those of the assignment lines, each once, and no finding is recorded
KeysParsed ==
    /\ Range(DictKeys(config_env)) = KeysOfLines(content.body)
    /\ \A i, j \in 1..Len(config_env) : config_env[i].k = config_env[j].k => i = j
    /\ errors = <<>> /\ warnings = <<>>
    /\ content.body = ExampleLines => ExampleResult

\* C8 as claimed: the value of a key is that of the last line that sets it,
\* without one layer of surrounding double quotes.
C8_Original ==
    pc = "check1" =>
        /\ KeysParsed
        /\ \A key \in KeysOfLines(content.body) :
            DictGet(config_env, key)
              = OneLayerOff(RawValueOf(content.body[LastLineOf(content.body, key)]))

\* C8 as amended: the value of a key is that of the last line that sets it,
\* without any of its leading and trailing double quotes.
C8_Amended ==
    pc = "check1" =>
        /\ KeysParsed
        /\ \A key \in KeysOfLines(content.body) :
            DictGet(config_env, key)
              = AllQuotesOff(RawValueOf(content.body[LastLineOf(content.body, key)]))

\* FOO is set twice, last by FOO=""hello"": its value is hello
C8_Witness ==
    /\ pc = "check1"
    /\ Len(content.body) >= 2
    /\ IsAssignment(content.body[1]) /\ KeyOf(content.body[1]) = FOO
    /\ content.body[Len(content.body)]
         = <<"F", "O", "O", "=", "\"", "\"", "h", "e", "l", "l", "o", "\"", "\"">>
    /\ RawValueOf(content.body[1]) # RawValueOf(content.body[Len(content.body)])
    /\ DictGet(config_env, FOO) = <<"h", "e", "l", "l", "o">>

\* the four lines of the claim have been parsed
C8_ExampleReached == ~(pc = "check1" /\ content.body = ExampleLines /\ ExampleResult)

====
